---- MODULE Spec2Model ----
(***************************************************************************)
(* Verification model of the opsml artifact registry.                      *)
(*                                                                         *)
(*   Spec       : the card-registry HTTP routes of                         *)
(*                opsml/app/routes/artifacts_routes.py (check_uid,         *)
(*                version, create, update) called by concurrent clients.   *)
(*   SpecUpload : the chunked POST /upload route of the same file.         *)
(*   SpecCard   : DataCard.create_registry_record of                       *)
(*                opsml_data/registry/data_card.py.                        *)
(*   SpecRace   : /version and /create of one (name, team) by clients      *)
(*                that do not wait for each other.                         *)
(*   SpecDownload : POST /download_model over a model registry.            *)
(*   SpecIter   : POST /download_file, the chunks of iterfile.             *)
(*   SpecPolars : PolarsData.save_data / load_data of                      *)
(*                opsml/registry/data/interfaces/polars_.py.               *)
(*   SpecTypes  : check_data_type of opsml/registry/data/types.py.         *)
(*   SpecFormat : DataFormatter of opsml_data/registry/formatter.py;       *)
(*                SpecData runs it next to check_data_type.                *)
(*   SpecSplit  : the properties of DataSplitterBase.                      *)
(*   SpecValidCard : validation of DataCard.data_splits and split_data.    *)
(*   SpecProject : ProjectInfo of opsml/projects/base/types.py.            *)
(*   SpecSettings : GET /settings of artifacts_routes.py and settings.py.  *)
(*   SpecCli    : ModelLoaderCli of scripts/load_model_card.py.            *)
(*   SpecMetadata, SpecFileRecord : Metadata and FileRecord of             *)
(*                opsml/data/interfaces/custom_data/base.py.               *)
(*   SpecSample : TensorFlowModel.get_sample_data.                         *)
(*   SpecRecord : data_splits through DataRegistryRecord and               *)
(*                LoadedDataRecord of registry/cards/record_models.py.     *)
(*                                                                         *)
(* The SQL registry behind the routes (registry._registry), the upload     *)
(* helpers of opsml.app.routes.utils, opsml_data.registry.storage, the     *)
(* storage client (iterfile) and the splitter classes are not part of the  *)
(* sources at hand; they are modelled from the design document and marked  *)
(* as such where they are defined.                                         *)
(***************************************************************************)
EXTENDS Integers, Sequences, FiniteSets, TLC

(***************************************************************************)
(* Bounds of the model                                                     *)
(***************************************************************************)
MaxRows == 2
MaxRaceRows == 3
MaxChunks == 5
MaxChunkData == 2
\* the upload limits, scaled down (the route sets 50 GiB and 50 GiB + 1024)
MAX_FILE_SIZE == 4
BodySlack == 2
MaxCards == 3
MaxCardVersion == 2
MaxModels == 3
\* the chunk size of the download routes (31457280 bytes in the source), scaled
CHUNK_SIZE == 8
MaxFileKinds == 3
MaxSplitIndex == 3
MaxIdLen == 3
MaxUriLen == 3
MaxVersions == 3
MaxRecords == 3
MaxRecordSize == 2
MaxItems == 3
MaxSampleRows == 2
\* a body bound that leaves no room for the multipart framing
MAX_REQUEST_BODY_SIZE_Mut == MAX_FILE_SIZE
MAX_REQUEST_BODY_SIZE == MAX_FILE_SIZE + BodySlack

Clients == {"c1", "c2"}
Uids == {"u1", "u2", "u3"}
CheckedUids == {"u1", "u2"}
UidLeq(a, b) == a = b \/ a = "u1" \/ (a = "u2" /\ b = "u3")
Names == {"x", "z"}
Teams == {"y"}
Metas == {"m0", "m1"}
VersionTypes == {"major", "minor", "patch"}
NoValue == "none"

(***************************************************************************)
(* Table names and registry selection                                      *)
(***************************************************************************)
\* A table name is kept as the list of its "_"-separated words.
TableNames == {<<"OPSML", "DATA", "REGISTRY">>, <<"OPSML", "MODEL", "REGISTRY">>}

\* str.lower() on the words that occur as table-name parts
lower(w) ==
    CASE w = "DATA" -> "data"
      [] w = "MODEL" -> "model"
      [] w = "OPSML" -> "opsml"
      [] w = "REGISTRY" -> "registry"
      [] OTHER -> w

\* payload.table_name.split("_")[1].lower()
table_for_registry(table_name) == lower(table_name[2])

\* getattr(request.app.state.registries, table_for_registry): the registry
\* object, identified by the table it persists to.
registry_table(key) ==
    CASE key = "data" -> <<"OPSML", "DATA", "REGISTRY">>
      [] key = "model" -> <<"OPSML", "MODEL", "REGISTRY">>

(***************************************************************************)
(* Versions: three-part identifiers <<major, minor, patch>>                *)
(***************************************************************************)
VersionLess(a, b) ==
    \/ a[1] < b[1]
    \/ a[1] = b[1] /\ a[2] < b[2]
    \/ a[1] = b[1] /\ a[2] = b[2] /\ a[3] < b[3]

increment_version(v, version_type) ==
    CASE version_type = "major" -> <<v[1] + 1, 0, 0>>
      [] version_type = "minor" -> <<v[1], v[2] + 1, 0>>
      [] version_type = "patch" -> <<v[1], v[2], v[3] + 1>>

VARIABLES
    tables,      \* table name -> sequence of committed rows, in commit order
    pc,          \* client -> "idle" | "checked" | "versioned"
    chk,         \* client -> last /check_uid exchange
    ver,         \* client -> last /version exchange
    created,     \* table name -> uids whose /create succeeded (history)
    last_write   \* the last /create or /update request and its answer

regvars == <<tables, pc, chk, ver, created, last_write>>

VARIABLES
    up_pc,       \* POST /upload: "idle" | "streaming" | "done"
    filename,    \* the Filename header of the request, or None
    write_path,  \* the WritePath header of the request, or None
    body_len,    \* body_validator.body_len: bytes of the body counted so far
    file_size,   \* bytes the file size validator of the target has counted
    multipart_filename,  \* file_.multipart_filename is set
    cur_part,    \* the multipart part the parser is in
    target_created,      \* the ExternalFileTarget of the request was built
    parser_bytes,        \* bytes handed to parser.data_received (history)
    chunks_read, \* chunks taken from request.stream() (history)
    sent_file,   \* some chunk read carried the start of a "file" part (history)
    ended,       \* how the chunk loop was left
    status,      \* HTTP status of the response, 0 while there is none
    storage_uri, \* the storage_uri of a success response, or None
    storage      \* storage path -> bytes stored there; absent paths are not in it

VARIABLES
    cards,       \* the DataCards on which create_registry_record has run
    nsaved       \* artifacts saved to storage so far

cardvars == <<cards, nsaved>>

VARIABLES
    dl,          \* the last POST /download_model request and its answer
    it,          \* the last iterfile call and the chunks it yielded
    pol,         \* the last PolarsData save_data / load_data round trip
    typ,         \* the last check_data_type call and its outcome
    fmt,         \* the last DataFormatter call and its outcome
    spl,         \* the last property read on a DataSplitterBase
    vc           \* the last DataCard built and what split_data did with it

\* the state of the download route and of the library functions
libvars == <<dl, it, pol, typ, fmt, spl, vc>>

VARIABLES
    proj,        \* the last ProjectInfo built
    sett,        \* the last GET /settings answers of the two routes
    cli,         \* the last ModelLoaderCli.save_to_local_file run
    md,          \* a Metadata object and the last read of its size
    fr,          \* the last FileRecord validated
    tfs,         \* the last TensorFlowModel.get_sample_data call
    rec          \* the last data_splits value stored in and loaded from a record

\* the state of the classes and scripts of the package called on their own
pkgvars == <<proj, sett, cli, md, fr, tfs, rec>>

upvars == <<up_pc, filename, write_path, body_len, file_size, multipart_filename,
            cur_part, target_created, parser_bytes, chunks_read, sent_file,
            ended, status, storage_uri, storage>>

Rows(tn) == {tables[tn][i] : i \in 1..Len(tables[tn])}

NoChk == [table_name |-> NoValue, uid |-> NoValue, uid_exists |-> FALSE]
NoVer == [table_name |-> NoValue, name |-> NoValue, team |-> NoValue,
          version |-> <<0, 0, 0>>]

(***************************************************************************)
(* The SQL registry (registry._registry), modelled from the design         *)
(* document: one table per card type, keyed by uid, with a secondary       *)
(* (name, team, version) uniqueness constraint.                            *)
(***************************************************************************)
\* registry._registry.check_uid(uid, table_to_check)
registry_check_uid(uid, table_to_check) ==
    \E r \in Rows(table_to_check) : r.uid = uid

MaxVersion(S) == CHOOSE v \in S : \A w \in S : w = v \/ VersionLess(w, v)

\* registry._registry.set_version(name, team, version_type): a lookup of the
\* latest committed version of the pair, bumped as asked.
registry_set_version(tn, name, team, version_type) ==
    LET vs == {r.version : r \in {q \in Rows(tn) : q.name = name /\ q.team = team}}
    IN  IF vs = {} THEN <<1, 0, 0>>
        ELSE increment_version(MaxVersion(vs), version_type)

\* the constraints of the table: primary key uid, unique (name, team, version)
Conflicts(tn, record) ==
    \E r \in Rows(tn) :
        \/ r.uid = record.uid
        \/ r.name = record.name /\ r.team = record.team /\ r.version = record.version

\* an insert that no constraint guards
registry_add_and_commit_Mut(tn, record) == Append(tables[tn], record)

\* registry._registry.add_and_commit(record): the table after the insert; an
\* insert that breaks a constraint raises and commits nothing
registry_add_and_commit(tn, record) ==
    IF Conflicts(tn, record) THEN tables[tn] ELSE Append(tables[tn], record)

\* an update that writes every field of the record to the row with its uid
registry_update_record_Mut(tn, record) ==
    [i \in 1..Len(tables[tn]) |->
        IF tables[tn][i].uid = record.uid THEN record ELSE tables[tn][i]]

\* registry._registry.update_record(record): the row with the record's uid
\* takes the record's mutable fields; name, team and uid are fixed at creation
registry_update_record(tn, record) ==
    [i \in 1..Len(tables[tn]) |->
        IF tables[tn][i].uid = record.uid
        THEN [tables[tn][i] EXCEPT !.meta = record.meta]
        ELSE tables[tn][i]]

(***************************************************************************)
(* The routes of artifacts_routes.py                                       *)
(***************************************************************************)
\* POST /check_uid with the two answers swapped
check_uid_Mut(table_name, uid) ==
    LET registry == registry_table(table_for_registry(table_name))
    IN  IF registry_check_uid(uid, table_name) THEN FALSE ELSE TRUE

\* POST /check_uid: the uid_exists field of the response
check_uid(table_name, uid) ==
    LET registry == registry_table(table_for_registry(table_name))
    IN  IF registry_check_uid(uid, table_name) THEN TRUE ELSE FALSE

\* POST /version: the version field of the response
set_version(table_name, name, team, version_type) ==
    LET registry == registry_table(table_for_registry(table_name))
    IN  registry_set_version(registry, name, team, version_type)

TotalRows == Len(tables[<<"OPSML", "DATA", "REGISTRY">>])
             + Len(tables[<<"OPSML", "MODEL", "REGISTRY">>])

\* a client asks whether its uid is registered already
CheckUid(c, table_name, uid) ==
    /\ pc[c] = "idle"
    /\ LET resp == check_uid(table_name, uid)
       IN  /\ chk' = [chk EXCEPT ![c] = [table_name |-> table_name, uid |-> uid,
                                         uid_exists |-> resp]]
           /\ pc' = [pc EXCEPT ![c] = IF resp THEN "idle" ELSE "checked"]
    /\ UNCHANGED <<tables, ver, created, last_write, upvars, cardvars, libvars, pkgvars>>

\* a client asks for the version of the card it is about to register
SetVersion(c, table_name, name, team, version_type) ==
    /\ pc[c] \in {"idle", "checked"}
    /\ pc[c] = "checked" => table_name = chk[c].table_name
    /\ LET version == set_version(table_name, name, team, version_type)
       IN  /\ ver' = [ver EXCEPT ![c] = [table_name |-> table_name, name |-> name,
                                         team |-> team, version |-> version]]
    /\ chk' = [chk EXCEPT ![c] = IF pc[c] = "checked" THEN chk[c] ELSE NoChk]
    /\ pc' = [pc EXCEPT ![c] = "versioned"]
    /\ UNCHANGED <<tables, created, last_write, upvars, cardvars, libvars, pkgvars>>

\* POST /create with the record of the card: the version is the one the
\* client was handed, the uid the one it checked (any uid if it did not check)
AddRecord(c, uid) ==
    /\ pc[c] = "versioned"
    /\ chk[c].uid # NoValue => uid = chk[c].uid
    /\ LET table_name == ver[c].table_name
           registry == registry_table(table_for_registry(table_name))
           record == [uid |-> uid, name |-> ver[c].name, team |-> ver[c].team,
                      version |-> ver[c].version, meta |-> "m0"]
           after == registry_add_and_commit(registry, record)
           registered == after # tables[registry]
       IN  /\ tables' = [tables EXCEPT ![registry] = after]
           /\ created' = [created EXCEPT ![registry] =
                              IF registered THEN @ \cup {uid} ELSE @]
           \* add_and_commit raising is answered with a server error
           /\ last_write' = [op |-> "create",
                             status |-> IF registered THEN 200 ELSE 500,
                             flag |-> chk[c].uid # NoValue]
    /\ pc' = [pc EXCEPT ![c] = "idle"]
    /\ chk' = [chk EXCEPT ![c] = NoChk]
    /\ ver' = [ver EXCEPT ![c] = NoVer]
    /\ UNCHANGED <<upvars, cardvars, libvars, pkgvars>>

\* POST /update with a record
UpdateRecords ==
    [uid : CheckedUids, name : Names, team : Teams,
     version : {<<1, 0, 0>>}, meta : Metas]

UpdateRecord(table_name, record) ==
    /\ LET registry == registry_table(table_for_registry(table_name))
       IN  /\ tables' = [tables EXCEPT ![registry] = registry_update_record(registry, record)]
           /\ last_write' = [op |-> "update", status |-> 200,
                             flag |-> \E r \in Rows(registry) :
                                         r.uid = record.uid /\ r.name # record.name]
    /\ UNCHANGED <<pc, chk, ver, created, upvars, cardvars, libvars, pkgvars>>

RegInit ==
    /\ tables = [tn \in TableNames |-> <<>>]
    /\ pc = [c \in Clients |-> "idle"]
    /\ chk = [c \in Clients |-> NoChk]
    /\ ver = [c \in Clients |-> NoVer]
    /\ created = [tn \in TableNames |-> {}]
    /\ last_write = [op |-> "none", status |-> 0, flag |-> FALSE]

(***************************************************************************)
(* POST /upload                                                            *)
(***************************************************************************)
\* Paths are kept as lists of their characters' classes: "/" and names.
None == <<"None">>
Filenames == {<<"f">>, <<"/", "f">>}
WritePaths == {<<"d">>, <<"d", "/">>}

\* os.path.join(a, b)
path_join(a, b) ==
    IF b # <<>> /\ b[1] = "/" THEN b
    ELSE IF a = <<>> \/ a[Len(a)] = "/" THEN a \o b
    ELSE a \o <<"/">> \o b

\* A chunk of a well-formed multipart body: possibly the header of a part
\* that starts in it (hlen bytes), then data bytes of the part the parser is
\* in.  A part is the "file" field with a filename, the "file" field without
\* one, or another field.
Chunks ==
    {ch \in [part : {"none", "file", "file_noname", "other"}, hlen : {0, 1},
             data : 0..MaxChunkData] :
        /\ (ch.hlen = 1) = (ch.part # "none")
        /\ ch.hlen + ch.data >= 1}

ChunkLen(ch) == ch.hlen + ch.data

\* MaxBodySizeValidator.__call__(chunk): body_len after the chunk, and
\* whether MaxBodySizeException is raised
body_validator_len(ch) == body_len + ChunkLen(ch)
body_validator_raises(ch) == body_validator_len(ch) > MAX_REQUEST_BODY_SIZE

\* the part the parser is in after the header of the chunk
part_after(ch) == IF ch.part = "none" THEN cur_part ELSE ch.part

\* bytes of the chunk the parser passes to the target registered as "file"
file_data(ch) == IF part_after(ch) \in {"file", "file_noname"} THEN ch.data ELSE 0

\* MaxSizeValidator.__call__(chunk) of the file target
file_validator_size(ch) == file_size + file_data(ch)
file_validator_raises(ch) ==
    file_data(ch) > 0 /\ file_validator_size(ch) > MAX_FILE_SIZE

\* ExternalFileTarget: where the bytes of the file go
target_path == path_join(write_path, filename)

\* the storage after the target has taken its share of the chunk: the file
\* is opened for writing when its part starts, data is appended to it
target_write(ch) ==
    LET started == ch.part \in {"file", "file_noname"}
        before == IF started \/ target_path \notin DOMAIN storage THEN 0
                  ELSE storage[target_path]
    IN  IF started \/ file_data(ch) > 0
        THEN [p \in DOMAIN storage \cup {target_path} |->
                 IF p = target_path THEN before + file_data(ch) ELSE storage[p]]
        ELSE storage

UpRequestInit ==
    /\ filename = None /\ write_path = None
    /\ body_len = 0 /\ file_size = 0
    /\ multipart_filename = FALSE /\ cur_part = "none"
    /\ target_created = FALSE
    /\ parser_bytes = 0 /\ chunks_read = 0 /\ sent_file = FALSE
    /\ ended = "no" /\ status = 0 /\ storage_uri = None

UpInit == up_pc = "idle" /\ UpRequestInit /\ storage = <<>>

\* the route from its entry to the chunk loop, the WritePath header unchecked
UploadRequest_Mut(fn, wp) ==
    /\ up_pc = "idle"
    /\ filename' = fn /\ write_path' = wp
    /\ IF fn = None
       THEN /\ status' = 422 /\ up_pc' = "done"
            /\ UNCHANGED target_created
       ELSE /\ target_created' = TRUE /\ up_pc' = "streaming"
            /\ UNCHANGED status
    /\ UNCHANGED <<body_len, file_size, multipart_filename, cur_part, parser_bytes,
                   chunks_read, sent_file, ended, storage_uri, storage, regvars,
                   cardvars, libvars, pkgvars>>

\* the route from its entry to the chunk loop
UploadRequest(fn, wp) ==
    /\ up_pc = "idle"
    /\ filename' = fn /\ write_path' = wp
    /\ IF fn = None \/ wp = None
       THEN /\ status' = 422 /\ up_pc' = "done"
            /\ UNCHANGED target_created
       ELSE /\ target_created' = TRUE /\ up_pc' = "streaming"
            /\ UNCHANGED status
    /\ UNCHANGED <<body_len, file_size, multipart_filename, cur_part, parser_bytes,
                   chunks_read, sent_file, ended, storage_uri, storage, regvars,
                   cardvars, libvars, pkgvars>>

\* what follows the chunk loop when no exception left the route
upload_response ==
    IF ~multipart_filename
    THEN /\ status' = 422 /\ UNCHANGED storage_uri
    ELSE /\ status' = 200 /\ storage_uri' = path_join(write_path, filename)

\* one turn of the chunk loop, with the parser called before the body size
\* has been validated
UploadChunk_Mut(chunk, storage_ok) ==
    /\ up_pc = "streaming"
    /\ chunks_read' = chunks_read + 1
    /\ sent_file' = (sent_file \/ chunk.part \in {"file", "file_noname"})
    /\ body_len' = body_validator_len(chunk)
    /\ parser_bytes' = parser_bytes + ChunkLen(chunk)
    /\ cur_part' = part_after(chunk)
    /\ multipart_filename' = (multipart_filename \/ chunk.part = "file")
    /\ file_size' = file_validator_size(chunk)
    /\ storage' = target_write(chunk)
    /\ IF body_validator_raises(chunk)
       THEN status' = 413 /\ up_pc' = "done" /\ ended' = "body_size"
       ELSE UNCHANGED <<status, up_pc, ended>>
    /\ UNCHANGED <<filename, write_path, target_created, storage_uri, regvars,
                   cardvars, libvars, pkgvars>>

\* one turn of the chunk loop: body_validator(chunk), parser.data_received(chunk)
UploadChunk(chunk, storage_ok) ==
    /\ up_pc = "streaming"
    /\ chunks_read' = chunks_read + 1
    /\ sent_file' = (sent_file \/ chunk.part \in {"file", "file_noname"})
    /\ body_len' = body_validator_len(chunk)
    /\ IF body_validator_raises(chunk)
       THEN \* MaxBodySizeException
            /\ status' = 413 /\ up_pc' = "done" /\ ended' = "body_size"
            /\ UNCHANGED <<parser_bytes, cur_part, multipart_filename, file_size,
                           storage>>
       ELSE /\ parser_bytes' = parser_bytes + ChunkLen(chunk)
            /\ cur_part' = part_after(chunk)
            /\ multipart_filename' = (multipart_filename \/ chunk.part = "file")
            /\ file_size' = file_validator_size(chunk)
            /\ IF file_validator_raises(chunk)
               THEN \* ValidationError
                    /\ status' = 413 /\ up_pc' = "done" /\ ended' = "file_size"
                    /\ storage' = target_write([chunk EXCEPT !.data = 0])
               ELSE IF file_data(chunk) > 0 /\ ~storage_ok
               THEN \* the storage client fails: any other Exception
                    /\ status' = 500 /\ up_pc' = "done" /\ ended' = "error"
                    /\ storage' = target_write([chunk EXCEPT !.data = 0])
               ELSE /\ storage' = target_write(chunk)
                    /\ UNCHANGED <<status, up_pc, ended>>
    /\ UNCHANGED <<filename, write_path, target_created, storage_uri, regvars,
                   cardvars, libvars, pkgvars>>

\* request.stream() is exhausted
UploadStreamEnd ==
    /\ up_pc = "streaming"
    /\ ended' = "end" /\ up_pc' = "done"
    /\ upload_response
    /\ UNCHANGED <<filename, write_path, body_len, file_size, multipart_filename,
                   cur_part, target_created, parser_bytes, chunks_read, sent_file,
                   storage, regvars, cardvars, libvars, pkgvars>>

\* request.stream() raises ClientDisconnect, which the route logs
UploadDisconnect ==
    /\ up_pc = "streaming"
    /\ ended' = "disconnect" /\ up_pc' = "done"
    /\ upload_response
    /\ UNCHANGED <<filename, write_path, body_len, file_size, multipart_filename,
                   cur_part, target_created, parser_bytes, chunks_read, sent_file,
                   storage, regvars, cardvars, libvars, pkgvars>>

\* the response has been sent; the next request may come
UploadDone ==
    /\ up_pc = "done"
    /\ up_pc' = "idle"
    /\ filename' = None /\ write_path' = None
    /\ body_len' = 0 /\ file_size' = 0
    /\ multipart_filename' = FALSE /\ cur_part' = "none"
    /\ target_created' = FALSE
    /\ parser_bytes' = 0 /\ chunks_read' = 0 /\ sent_file' = FALSE
    /\ ended' = "no" /\ status' = 0 /\ storage_uri' = None
    /\ UNCHANGED <<storage, regvars, cardvars, libvars, pkgvars>>

(***************************************************************************)
(* DataCard.create_registry_record (opsml_data/registry/data_card.py)      *)
(***************************************************************************)
DataNames == {"a", "b"}
CardTeams == {"t"}
DataRegistries == {"data_registry"}
NoUri == <<>>

\* save_record_data_to_storage(data, data_name, version, team, blob_path)
\* .gcs_uri, with every save placed under a file name of its own
\* (the design gives each artifact path exactly one holder); the variant
\* before it builds the path from the naming arguments alone
save_record_data_to_storage_Mut(data_name, version, team, blob_path, n) ==
    <<blob_path, team, data_name, version>>

save_record_data_to_storage(data_name, version, team, blob_path, n) ==
    <<blob_path, team, data_name, version, n>>

\* DataCard._convert_and_save_data: the data_uri of the card
convert_and_save_data(card, blob_path, version) ==
    save_record_data_to_storage(card.data_name, version, card.team, blob_path,
                                nsaved + 1)

\* DataCard._save_drift: the drift_uri of the card
save_drift(card, blob_path, version) ==
    IF card.has_drift
    THEN save_record_data_to_storage("drift_report", version, card.team, blob_path,
                                     nsaved + 2)
    ELSE card.drift_uri

\* DataCard.create_registry_record(data_registry, uid, version) on a new card
create_registry_record(data_name, team, has_drift, data_registry, uid, version) ==
    /\ Cardinality(cards) < MaxCards
    /\ \A c \in cards :
          ~(c.data_name = data_name /\ c.team = team /\ c.version = version)
    /\ LET card == [data_name |-> data_name, team |-> team, has_drift |-> has_drift,
                    uid |-> uid, version |-> version,
                    data_uri |-> NoUri, drift_uri |-> NoUri]
           saved == [card EXCEPT
                        !.data_uri = convert_and_save_data(card, data_registry, version),
                        !.drift_uri = save_drift(card, data_registry, version)]
       IN  /\ cards' = cards \cup {saved}
           /\ nsaved' = nsaved + (IF has_drift THEN 2 ELSE 1)
    /\ UNCHANGED <<regvars, upvars, libvars, pkgvars>>

CardInit == cards = {} /\ nsaved = 0

(***************************************************************************)
(* POST /download_model                                                    *)
(***************************************************************************)
ModelTable == <<"OPSML", "MODEL", "REGISTRY">>

\* a request that names no version
NoVersion == <<>>

\* the onnx_model_uri field of a model record: one storage path per card
onnx_model_uri(card) == <<"onnx", card.uid>>

\* the cards of a set as a list, highest version first
RECURSIVE version_descending(_)
version_descending(S) ==
    IF S = {} THEN <<>>
    ELSE LET top == CHOOSE r \in S : \A q \in S : ~VersionLess(r.version, q.version)
         IN  <<top>> \o version_descending(S \ {top})

\* registry.list_cards(name, team, version, uid, as_dataframe=False): the
\* records of the registry that match every filter given (NoValue stands for
\* a filter left out), ordered by version descending; modelled from the
\* design, the registry is not in the sources
registry_list_cards(tn, name, team, version, uid) ==
    version_descending({r \in Rows(tn) :
        /\ name # NoValue => r.name = name
        /\ team # NoValue => r.team = team
        /\ version # NoVersion => r.version = version
        /\ uid # NoValue => r.uid = uid})

\* download_model(request, payload): the status of the answer and the path
\* of the file it streams
download_model(name, team, version, uid, storage_ok) ==
    LET found == registry_list_cards(ModelTable, name, team, version, uid)
    IN  IF Len(found) > 1
        THEN [status |-> 500, detail |-> "More than one model found", file_path |-> NoUri]
        ELSE IF found = <<>>
        THEN [status |-> 500, detail |-> "No model found", file_path |-> NoUri]
        ELSE IF ~storage_ok
        THEN [status |-> 500, detail |-> "Error downloading model", file_path |-> NoUri]
        ELSE [status |-> 200, detail |-> "", file_path |-> onnx_model_uri(found[1])]

DownloadModel(name, team, version, uid, storage_ok) ==
    /\ dl' = [name |-> name, team |-> team, version |-> version, uid |-> uid,
              storage_ok |-> storage_ok,
              answer |-> download_model(name, team, version, uid, storage_ok)]
    /\ UNCHANGED <<regvars, upvars, cardvars, it, pol, typ, fmt, spl, vc, pkgvars>>

NoAnswer == [status |-> 0, detail |-> "", file_path |-> NoUri]

DownloadInit ==
    dl = [name |-> NoValue, team |-> NoValue, version |-> NoVersion, uid |-> NoValue,
          storage_ok |-> TRUE, answer |-> NoAnswer]

(***************************************************************************)
(* POST /download_file and storage_client.iterfile                         *)
(***************************************************************************)
\* sizes of the stored files: up to one byte past five chunks and seven bytes
MaxFileSize == 5 * CHUNK_SIZE + 8

\* the stored files: byte strings of every size, of a few contents each
Files == {[i \in 1..n |-> (i * k) % 4] : n \in 0..MaxFileSize, k \in 1..MaxFileKinds}

\* an iterfile that yields the full chunks only
RECURSIVE iterfile_Mut(_, _)
iterfile_Mut(file, chunk_size) ==
    IF Len(file) < chunk_size THEN <<>>
    ELSE <<SubSeq(file, 1, chunk_size)>>
         \o iterfile_Mut(SubSeq(file, chunk_size + 1, Len(file)), chunk_size)

\* storage_client.iterfile(file_path, chunk_size): the chunks yielded for the
\* file at file_path, each a read of at most chunk_size bytes, until a read
\* returns nothing; modelled from the design, the storage client is not in
\* the sources
RECURSIVE iterfile(_, _)
iterfile(file, chunk_size) ==
    IF file = <<>> THEN <<>>
    ELSE IF Len(file) <= chunk_size THEN <<file>>
    ELSE <<SubSeq(file, 1, chunk_size)>>
         \o iterfile(SubSeq(file, chunk_size + 1, Len(file)), chunk_size)

\* download_file(request, payload): the chunks of the streaming response
download_file(file) == iterfile(file, CHUNK_SIZE)

DownloadFile(file) ==
    /\ it' = [called |-> TRUE, file |-> file, chunks |-> download_file(file)]
    /\ UNCHANGED <<regvars, upvars, cardvars, dl, pol, typ, fmt, spl, vc, pkgvars>>

IterInit == it = [called |-> FALSE, file |-> <<>>, chunks |-> <<>>]

(***************************************************************************)
(* PolarsData.save_data / load_data                                        *)
(***************************************************************************)
\* paths as the dot-separated parts of their last component
PolarsPaths == {<<"a">>, <<"a", "parquet">>, <<"a", "csv">>}

\* Suffix.PARQUET.value
storage_suffix == "parquet"

\* Path.with_suffix: the last suffix replaced, or the suffix added to a path
\* that has none
with_suffix(path, suffix) ==
    IF Len(path) = 1 THEN path \o <<suffix>>
    ELSE SubSeq(path, 1, Len(path) - 1) \o <<suffix>>

\* polars data frames: the columns (name, dtype) in order and the row count
PolarsSchemas ==
    {<<>>, <<<<"a", "Int64">>>>, <<<<"a", "Int64">>, <<"b", "Utf8">>>>,
     <<<<"b", "Utf8">>, <<"a", "Int64">>>>}
PolarsFrames == [schema : PolarsSchemas, height : {0, 2}]

\* the arrow type a polars dtype is written as, and the polars dtype an arrow
\* type is read as
to_arrow_type(t) == IF t = "Int64" THEN "int64" ELSE "large_string"
from_arrow_type(t) == IF t = "int64" THEN "Int64" ELSE "Utf8"

\* pl.DataFrame.to_arrow
to_arrow(d) ==
    [schema |-> [i \in 1..Len(d.schema) |->
                    <<d.schema[i][1], to_arrow_type(d.schema[i][2])>>],
     num_rows |-> d.height]

\* pl.from_arrow
from_arrow(t) ==
    [schema |-> [i \in 1..Len(t.schema) |->
                    <<t.schema[i][1], from_arrow_type(t.schema[i][2])>>],
     height |-> t.num_rows]

\* the feature_map save_data builds: column name -> str(dtype)
polars_feature_map(d) == {d.schema[i] : i \in 1..Len(d.schema)}

\* check_data_schema(data, feature_map, data_type): the columns named in the
\* feature map cast to the dtype recorded for them; modelled from the design
check_data_schema(d, feature_map) ==
    [d EXCEPT !.schema =
        [i \in 1..Len(d.schema) |->
            IF \E f \in feature_map : f[1] = d.schema[i][1]
            THEN CHOOSE f \in feature_map : f[1] = d.schema[i][1]
            ELSE d.schema[i]]]

\* no parquet file at a path
Absent == [schema |-> <<>>, num_rows |-> -1]
NoFrame == [schema |-> <<>>, height |-> -1]

\* PolarsData.save_data(path) on an interface holding the frame d
PolarsSaveData(path, d) ==
    /\ LET save_path == with_suffix(path, storage_suffix)
       IN  pol' = [pc |-> "saved", path |-> path, data |-> d,
                   feature_map |-> polars_feature_map(d),
                   \* pq.write_table(self.data.to_arrow(), path)
                   files |-> [pol.files EXCEPT ![path] = to_arrow(d)],
                   written |-> path,
                   save_path |-> save_path,
                   loaded |-> NoFrame, raised |-> FALSE]
    /\ UNCHANGED <<regvars, upvars, cardvars, dl, it, typ, fmt, spl, vc, pkgvars>>

\* PolarsData.load_data(path) with the path just given to save_data
PolarsLoadData ==
    /\ pol.pc = "saved"
    /\ LET load_path == with_suffix(pol.path, storage_suffix)
           pa_table == pol.files[load_path]
       IN  IF pa_table = Absent
           THEN pol' = [pol EXCEPT !.pc = "loaded", !.raised = TRUE]
           ELSE pol' = [pol EXCEPT !.pc = "loaded",
                            !.loaded = check_data_schema(from_arrow(pa_table),
                                                         pol.feature_map)]
    /\ UNCHANGED <<regvars, upvars, cardvars, dl, it, typ, fmt, spl, vc, pkgvars>>

PolarsInit ==
    pol = [pc |-> "idle", path |-> <<"a">>, data |-> NoFrame, feature_map |-> {},
           files |-> [p \in {with_suffix(q, storage_suffix) : q \in PolarsPaths}
                            \cup PolarsPaths |-> Absent],
           written |-> <<>>, save_path |-> <<>>, loaded |-> NoFrame,
           raised |-> FALSE]

(***************************************************************************)
(* The type dispatcher: check_data_type                                    *)
(***************************************************************************)
\* AllowedDataType: member -> value, a dotted name as its parts
AllowedDataType ==
    [PANDAS |-> <<"pandas", "core", "frame", "DataFrame">>,
     PYARROW |-> <<"pyarrow", "lib", "Table">>,
     POLARS |-> <<"polars", "dataframe", "frame", "DataFrame">>,
     NUMPY |-> <<"numpy", "ndarray">>,
     IMAGE |-> <<"ImageDataset">>,
     DICT |-> <<"dict">>,
     SQL |-> <<"sql">>,
     PROFILE |-> <<"profile">>,
     TRANSFORMER_BATCH |-> <<"transformers", "tokenization_utils_base", "BatchEncoding">>,
     STRING |-> <<"str">>,
     TORCH_TENSOR |-> <<"torch", "Tensor">>,
     TENSORFLOW_TENSOR |-> <<"tensorflow", "python", "framework", "ops", "EagerTensor">>]

\* the classes check_data_type tests with isinstance
InstanceClasses ==
    {"dict", "ImageDataset", "np.ndarray", "pd.DataFrame", "pl.DataFrame",
     "pa.Table", "str"}

\* classes of the libraries: module, qualified name and the tested classes
\* their objects are instances of
LibraryClasses ==
    {[module |-> <<"builtins">>, qualname |-> "dict", isa |-> {"dict"}],
     [module |-> <<"builtins">>, qualname |-> "str", isa |-> {"str"}],
     [module |-> <<"builtins">>, qualname |-> "int", isa |-> {}],
     [module |-> <<"numpy">>, qualname |-> "ndarray", isa |-> {"np.ndarray"}],
     [module |-> <<"pandas", "core", "frame">>, qualname |-> "DataFrame",
      isa |-> {"pd.DataFrame"}],
     [module |-> <<"polars", "dataframe", "frame">>, qualname |-> "DataFrame",
      isa |-> {"pl.DataFrame"}],
     [module |-> <<"pyarrow", "lib">>, qualname |-> "Table", isa |-> {"pa.Table"}],
     [module |-> <<"opsml", "registry", "image", "dataset">>, qualname |-> "ImageDataset",
      isa |-> {"ImageDataset"}],
     [module |-> <<"transformers", "tokenization_utils_base">>,
      qualname |-> "BatchEncoding", isa |-> {}],
     [module |-> <<"torch">>, qualname |-> "Tensor", isa |-> {}],
     [module |-> <<"tensorflow", "python", "framework", "ops">>,
      qualname |-> "EagerTensor", isa |-> {}]}

\* classes of a user's module, deriving from any of the tested classes
UserClasses ==
    {[module |-> <<"user">>, qualname |-> "Thing", isa |-> bases] :
        bases \in SUBSET InstanceClasses}

\* the objects handed to check_data_type, each given by its class
DataObjects == LibraryClasses \cup UserClasses

\* get_class_name(object_)
get_class_name(object_) ==
    IF object_.module = <<"builtins">> THEN <<object_.qualname>>
    ELSE object_.module \o <<object_.qualname>>

\* isinstance(data, class)
isinstance(data, class) == class \in data.isa

Returned(value) == [raised |-> FALSE, value |-> value, exc |-> "", received |-> <<>>]

\* a check_data_type that tests for a string first
check_data_type_Mut(data) ==
    LET class_name == get_class_name(data)
    IN  IF isinstance(data, "str") THEN Returned(AllowedDataType.STRING)
        ELSE IF isinstance(data, "dict") THEN Returned(AllowedDataType.DICT)
        ELSE IF isinstance(data, "ImageDataset") THEN Returned(AllowedDataType.IMAGE)
        ELSE IF isinstance(data, "np.ndarray") THEN Returned(AllowedDataType.NUMPY)
        ELSE IF isinstance(data, "pd.DataFrame") THEN Returned(AllowedDataType.PANDAS)
        ELSE IF isinstance(data, "pl.DataFrame") THEN Returned(AllowedDataType.POLARS)
        ELSE IF isinstance(data, "pa.Table") THEN Returned(AllowedDataType.PYARROW)
        ELSE IF class_name = AllowedDataType.TRANSFORMER_BATCH
        THEN Returned(AllowedDataType.TRANSFORMER_BATCH)
        ELSE IF class_name = AllowedDataType.TORCH_TENSOR
        THEN Returned(AllowedDataType.TORCH_TENSOR)
        ELSE IF class_name = AllowedDataType.TENSORFLOW_TENSOR
        THEN Returned(AllowedDataType.TENSORFLOW_TENSOR)
        ELSE [raised |-> TRUE, value |-> <<>>, exc |-> "ValueError",
              received |-> class_name]

\* check_data_type(data): the value returned, or the exception raised and the
\* type its message names (str(type(data)))
check_data_type(data) ==
    LET class_name == get_class_name(data)
    IN  IF isinstance(data, "dict") THEN Returned(AllowedDataType.DICT)
        ELSE IF isinstance(data, "ImageDataset") THEN Returned(AllowedDataType.IMAGE)
        ELSE IF isinstance(data, "np.ndarray") THEN Returned(AllowedDataType.NUMPY)
        ELSE IF isinstance(data, "pd.DataFrame") THEN Returned(AllowedDataType.PANDAS)
        ELSE IF isinstance(data, "pl.DataFrame") THEN Returned(AllowedDataType.POLARS)
        ELSE IF isinstance(data, "pa.Table") THEN Returned(AllowedDataType.PYARROW)
        ELSE IF isinstance(data, "str") THEN Returned(AllowedDataType.STRING)
        ELSE IF class_name = AllowedDataType.TRANSFORMER_BATCH
        THEN Returned(AllowedDataType.TRANSFORMER_BATCH)
        ELSE IF class_name = AllowedDataType.TORCH_TENSOR
        THEN Returned(AllowedDataType.TORCH_TENSOR)
        ELSE IF class_name = AllowedDataType.TENSORFLOW_TENSOR
        THEN Returned(AllowedDataType.TENSORFLOW_TENSOR)
        ELSE [raised |-> TRUE, value |-> <<>>, exc |-> "ValueError",
              received |-> class_name]

CheckDataType(data) ==
    /\ typ' = [called |-> TRUE, data |-> data, result |-> check_data_type(data)]
    /\ UNCHANGED <<regvars, upvars, cardvars, dl, it, pol, fmt, spl, vc, pkgvars>>

TypeInit ==
    typ = [called |-> FALSE,
           data |-> [module |-> <<"builtins">>, qualname |-> "int", isa |-> {}],
           result |-> Returned(<<>>)]

(***************************************************************************)
(* The arrow formatter: DataFormatter                                      *)
(***************************************************************************)
\* the objects handed to the formatter: class, columns (name, type) in
\* order, kind of row index, row count and element dtype
PandasFrames ==
    [isa : {{"pd.DataFrame"}}, name : {"DataFrame"},
     columns : {<<>>, <<<<"a", "int64">>>>, <<<<"a", "int64">>, <<"b", "object">>>>,
                <<<<"b", "object">>, <<"a", "int64">>>>},
     index : {"RangeIndex", "Index"}, rows : {0, 2}, dtype : {""}]
ArrowTables ==
    [isa : {{"pa.Table"}}, name : {"Table"},
     columns : {<<>>, <<<<"a", "int64">>>>, <<<<"a", "int64">>, <<"b", "string">>>>,
                <<<<"b", "string">>, <<"a", "int64">>>>,
                <<<<"a", "int64">>, <<"a", "string">>>>},
     index : {"none"}, rows : {0, 2}, dtype : {""}]
NumpyArrays ==
    [isa : {{"np.ndarray"}}, name : {"ndarray"}, columns : {<<>>},
     index : {"none"}, rows : {0, 2}, dtype : {"float64", "int32", "object"}]
OtherObjects ==
    [isa : {{}, {"str"}, {"pl.DataFrame"}}, name : {"other"}, columns : {<<>>},
     index : {"none"}, rows : {0}, dtype : {""}]
FormatObjects == PandasFrames \cup ArrowTables \cup NumpyArrays \cup OtherObjects

\* ArrowFormatter.__subclasses__(): the three formatters in some order
Formatters == {"PandasFormatter", "NumpyFormatter", "ArrowTableFormatter"}
SubclassOrder == <<"PandasFormatter", "NumpyFormatter", "ArrowTableFormatter">>
FormatterOrders ==
    {o \in [1..3 -> Formatters] : \A f \in Formatters : \E i \in 1..3 : o[i] = f}

\* <formatter>.validate_data(data)
validate_data(formatter, data) ==
    CASE formatter = "PandasFormatter" -> isinstance(data, "pd.DataFrame")
      [] formatter = "NumpyFormatter" -> isinstance(data, "np.ndarray")
      [] formatter = "ArrowTableFormatter" -> isinstance(data, "pa.Table")

\* a conversion that keeps the index of the frame
from_pandas_Mut(data) ==
    [isa |-> {"pa.Table"}, name |-> "Table",
     columns |-> [i \in 1..Len(data.columns) |->
                    <<data.columns[i][1],
                      IF data.columns[i][2] = "object" THEN "string"
                      ELSE data.columns[i][2]>>]
                 \o (IF data.index = "Index" THEN <<<<"__index_level_0__", "int64">>>>
                     ELSE <<>>),
     index |-> "none", rows |-> data.rows, dtype |-> ""]

\* pa.Table.from_pandas(data, preserve_index=False)
from_pandas(data) ==
    [isa |-> {"pa.Table"}, name |-> "Table",
     columns |-> [i \in 1..Len(data.columns) |->
                    <<data.columns[i][1],
                      IF data.columns[i][2] = "object" THEN "string"
                      ELSE data.columns[i][2]>>],
     index |-> "none", rows |-> data.rows, dtype |-> ""]

\* <formatter>.convert(data): ArrowTable(table=..., table_type=...)
convert(formatter, data) ==
    [raised |-> FALSE, exc |-> "", received |-> "",
     table |-> IF formatter = "PandasFormatter" THEN from_pandas(data) ELSE data,
     table_type |-> data.name]

\* DataFormatter.convert_data_to_arrow(data): next() of the formatters that
\* validate the data, in the order __subclasses__() lists them; next() of an
\* exhausted generator raises StopIteration
convert_data_to_arrow(data, order) ==
    LET accepting == {i \in 1..3 : validate_data(order[i], data)}
    IN  IF accepting = {}
        THEN [raised |-> TRUE, exc |-> "StopIteration", received |-> "",
              table |-> data, table_type |-> ""]
        ELSE convert(order[CHOOSE i \in accepting : \A j \in accepting : i <= j], data)

\* a create_table_schema that does not tell arrays from other objects
create_table_schema_Mut(data) ==
    IF isinstance(data, "pa.Table")
    THEN {<<data.columns[i][1], data.columns[i][2]>> : i \in
            {i \in 1..Len(data.columns) :
                \A j \in (i + 1)..Len(data.columns) :
                    data.columns[j][1] # data.columns[i][1]}}
    ELSE {<<"data_dtype", "None">>}

\* DataFormatter.create_table_schema(data): the feature map as its items; a
\* name assigned twice keeps the type assigned last
create_table_schema(data) ==
    IF isinstance(data, "pa.Table")
    THEN {<<data.columns[i][1], data.columns[i][2]>> : i \in
            {i \in 1..Len(data.columns) :
                \A j \in (i + 1)..Len(data.columns) :
                    data.columns[j][1] # data.columns[i][1]}}
    ELSE IF isinstance(data, "np.ndarray")
    THEN {<<"numpy_dtype", data.dtype>>}
    ELSE {<<"data_dtype", "None">>}

NotConverted ==
    [raised |-> FALSE, exc |-> "", received |-> "",
     table |-> CHOOSE d \in OtherObjects : d.isa = {}, table_type |-> ""]

ConvertDataToArrow(data, order) ==
    /\ fmt' = [op |-> "convert", data |-> data, order |-> order,
               converted |-> convert_data_to_arrow(data, order),
               feature_map |-> {}]
    /\ UNCHANGED <<regvars, upvars, cardvars, dl, it, pol, typ, spl, vc, pkgvars>>

CreateTableSchema(data) ==
    /\ fmt' = [op |-> "schema", data |-> data, order |-> fmt.order,
               converted |-> NotConverted,
               feature_map |-> create_table_schema(data)]
    /\ UNCHANGED <<regvars, upvars, cardvars, dl, it, pol, typ, spl, vc, pkgvars>>

FormatInit ==
    fmt = [op |-> "none", data |-> NotConverted.table,
           order |-> SubclassOrder,
           converted |-> NotConverted, feature_map |-> {}]

(***************************************************************************)
(* The data splitter: DataSplit and DataSplitterBase                       *)
(***************************************************************************)
\* an optional field holds no value (None) or one value
Nothing == <<>>
Some(v) == <<v>>

\* DataSplit(label=..., ...) of one variant: a column predicate, a range of
\* rows or explicit row indices
DataSplits ==
    [label : {"train"}, column_name : {Some("c"), Some("d")},
     column_value : {Some(v) : v \in 0..2}, start : {Nothing}, stop : {Nothing},
     indices : {Nothing}]
    \cup [label : {"train"}, column_name : {Nothing}, column_value : {Nothing},
          start : {Some(v) : v \in 0..MaxSplitIndex},
          stop : {Some(v) : v \in 0..MaxSplitIndex}, indices : {Nothing}]
    \cup [label : {"train"}, column_name : {Nothing}, column_value : {Nothing},
          start : {Nothing}, stop : {Nothing},
          indices : {Some(<<>>), Some(<<0>>), Some(<<0, 2>>), Some(<<2, 0, 2>>)}]

SplitProperties == {"column_name", "column_value", "start", "stop", "indices"}

\* a property that hands out the field as it is, None included
splitter_property_Mut(split, property) ==
    [raised |-> FALSE, exc |-> "", value |-> split[property]]

\* DataSplitterBase(split, dependent_vars).<property>: the field of the split
\* if it holds a value, ValueError if it does not; modelled from the design
\* and the splitter test, the splitter is not in the sources
splitter_property(split, property) ==
    IF split[property] # Nothing
    THEN [raised |-> FALSE, exc |-> "", value |-> split[property]]
    ELSE [raised |-> TRUE, exc |-> "ValueError", value |-> Nothing]

ReadProperty(split, property) ==
    /\ spl' = [read |-> TRUE, split |-> split, property |-> property,
               result |-> splitter_property(split, property)]
    /\ UNCHANGED <<regvars, upvars, cardvars, dl, it, pol, typ, fmt, vc, pkgvars>>

SplitInit ==
    spl = [read |-> FALSE,
           split |-> [label |-> "train", column_name |-> Nothing,
                      column_value |-> Nothing, start |-> Nothing, stop |-> Nothing,
                      indices |-> Some(<<>>)],
           property |-> "indices",
           result |-> [raised |-> FALSE, exc |-> "", value |-> Nothing]]

(***************************************************************************)
(* DataCard: validation of data_splits and split_data                      *)
(***************************************************************************)
\* a split entry: a dict with a label and any of the keys of the three
\* variants; indices come as a list or as an ndarray
SplitKeys == {"column", "column_value", "start", "stop", "indices"}
SplitEntries ==
    {e \in [label : {"train", "test"}, keys : SUBSET SplitKeys,
            indices : {"none", "list", "ndarray"}] :
        e.indices = "none" <=> "indices" \notin e.keys}

\* the data_splits argument of a card: None, or a list of entries
NoSplits == [is_none |-> TRUE, entries |-> <<>>]
SplitLists ==
    {NoSplits}
    \cup {[is_none |-> FALSE, entries |-> l] : l \in
            {<<>>}
            \cup {<<e>> : e \in SplitEntries}
            \cup {<<[label |-> "train", keys |-> {"start", "stop"},
                     indices |-> "none"], e>> : e \in SplitEntries}}

\* ValidCard.convert_none(splits): the validator of data_splits
convert_none(splits) ==
    IF splits.is_none THEN <<>>
    ELSE [i \in 1..Len(splits.entries) |->
            IF splits.entries[i].indices = "ndarray"
            THEN [splits.entries[i] EXCEPT !.indices = "list"]
            ELSE splits.entries[i]]

\* DataCard(..., data_splits=splits): the card after validation
CreateCard(splits) ==
    /\ vc' = [pc |-> "created", data_splits |-> convert_none(splits),
              handed |-> <<>>, holder |-> "none", attrs |-> {}]
    /\ UNCHANGED <<regvars, upvars, cardvars, dl, it, pol, typ, fmt, spl, pkgvars>>

\* DataCard._parse_data_splits(): the attributes of the DataHolder after
\* setattr(data_holder, label, data) for every split in order, as pairs of
\* label and the data of the i-th split; a label set again takes the later data
parse_data_splits(data_splits) ==
    {<<data_splits[i].label, i>> : i \in
        {i \in 1..Len(data_splits) :
            \A j \in (i + 1)..Len(data_splits) :
                data_splits[j].label # data_splits[i].label}}

\* DataCard.split_data(): every split of the card handed to DataSplitter, the
\* data it returns set on the holder under the split's label
SplitData ==
    /\ vc.pc = "created"
    /\ IF vc.data_splits = <<>>
       THEN vc' = [vc EXCEPT !.pc = "split", !.holder = "None"]
       ELSE vc' = [vc EXCEPT !.pc = "split", !.handed = vc.data_splits,
                             !.holder = "DataHolder",
                             !.attrs = parse_data_splits(vc.data_splits)]
    /\ UNCHANGED <<regvars, upvars, cardvars, dl, it, pol, typ, fmt, spl, pkgvars>>

ValidCardInit ==
    vc = [pc |-> "none", data_splits |-> <<>>, handed |-> <<>>, holder |-> "none",
          attrs |-> {}]

LibInit ==
    /\ DownloadInit
    /\ IterInit
    /\ PolarsInit
    /\ TypeInit
    /\ FormatInit
    /\ SplitInit
    /\ ValidCardInit

(***************************************************************************)
(* ProjectInfo                                                             *)
(***************************************************************************)
\* strings as sequences of characters: the name and team given to ProjectInfo
Identifiers ==
    UNION {[1..n -> {"a", "A", "_", " "}] : n \in 0..MaxIdLen}

\* an identifier_validator that strips and replaces but keeps the case
identifier_validator_Mut(value) ==
    LET inner == {i \in 1..Len(value) : value[i] # " "}
        stripped == IF inner = {} THEN <<>>
                    ELSE SubSeq(value, CHOOSE i \in inner : \A j \in inner : i <= j,
                                       CHOOSE i \in inner : \A j \in inner : j <= i)
    IN  [i \in 1..Len(stripped) |-> IF stripped[i] = "_" THEN "-" ELSE stripped[i]]

\* ProjectInfo.identifier_validator(value): value.strip().lower().replace("_", "-")
identifier_validator(value) ==
    LET inner == {i \in 1..Len(value) : value[i] # " "}
        stripped == IF inner = {} THEN <<>>
                    ELSE SubSeq(value, CHOOSE i \in inner : \A j \in inner : i <= j,
                                       CHOOSE i \in inner : \A j \in inner : j <= i)
        lowered == [i \in 1..Len(stripped) |->
                       IF stripped[i] = "A" THEN "a" ELSE stripped[i]]
    IN  [i \in 1..Len(lowered) |-> IF lowered[i] = "_" THEN "-" ELSE lowered[i]]

\* ProjectInfo.project_id: f"{self.team}:{self.name}"
project_id(name, team) == team \o <<":">> \o name

\* ProjectInfo(name=..., team=...): the validator runs before the field
\* checks (min_length=1); a field that fails them raises a validation error
BuildProjectInfo(name, team) ==
    /\ LET n == identifier_validator(name)
           t == identifier_validator(team)
       IN  proj' = [built |-> TRUE, name_in |-> name, team_in |-> team,
                    valid |-> Len(n) >= 1 /\ Len(t) >= 1,
                    name |-> n, team |-> t, project_id |-> project_id(n, t)]
    /\ UNCHANGED <<regvars, upvars, cardvars, libvars, sett, cli, md, fr, tfs, rec>>

(***************************************************************************)
(* GET /settings, in artifacts_routes.py and in settings.py                *)
(***************************************************************************)
\* an answer that reports a bucket as gcs also behind a proxy
settings_get_storage_settings_Mut(STORAGE_URI, is_proxy) ==
    [storage_type |-> IF STORAGE_URI = <<>> THEN "local"
                      ELSE IF \E i \in 1..Len(STORAGE_URI) : STORAGE_URI[i] = "gs://"
                      THEN "gcs"
                      ELSE IF is_proxy THEN "api" ELSE "local",
     storage_uri |-> STORAGE_URI, proxy |-> is_proxy]

\* get_storage_settings() of settings.py for a config with the given
\* STORAGE_URI (a string as its parts) and is_proxy
settings_get_storage_settings(STORAGE_URI, is_proxy) ==
    LET local == "local"
        gcs == IF STORAGE_URI # <<>> /\ ~is_proxy
                  /\ \E i \in 1..Len(STORAGE_URI) : STORAGE_URI[i] = "gs://"
               THEN "gcs" ELSE local
        api == IF STORAGE_URI # <<>> /\ is_proxy THEN "api" ELSE gcs
    IN  [storage_type |-> api, storage_uri |-> STORAGE_URI, proxy |-> is_proxy]

\* the value of StorageSettingsResponse.proxy when the caller passes none
StorageSettingsResponse_proxy == FALSE

\* get_storage_settings() of artifacts_routes.py; the gcs answer passes no
\* proxy and so carries the default of StorageSettingsResponse
artifacts_get_storage_settings(STORAGE_URI, is_proxy) ==
    IF STORAGE_URI # <<>> /\ ~is_proxy
       /\ \E i \in 1..Len(STORAGE_URI) : STORAGE_URI[i] = "gs://"
    THEN [storage_type |-> "gcs", storage_uri |-> STORAGE_URI,
          proxy |-> StorageSettingsResponse_proxy]
    ELSE IF STORAGE_URI # <<>> /\ is_proxy
    THEN [storage_type |-> "api", storage_uri |-> STORAGE_URI, proxy |-> is_proxy]
    ELSE [storage_type |-> "local", storage_uri |-> STORAGE_URI, proxy |-> is_proxy]

\* GET /settings asked of both routes under one configuration
GetStorageSettings(STORAGE_URI, is_proxy) ==
    /\ sett' = [called |-> TRUE, STORAGE_URI |-> STORAGE_URI, is_proxy |-> is_proxy,
                artifacts |-> artifacts_get_storage_settings(STORAGE_URI, is_proxy),
                settings |-> settings_get_storage_settings(STORAGE_URI, is_proxy)]
    /\ UNCHANGED <<regvars, upvars, cardvars, libvars, proj, cli, md, fr, tfs, rec>>

(***************************************************************************)
(* scripts/load_model_card.py: ModelLoaderCli                              *)
(***************************************************************************)
\* ModelLoaderCli.save_to_local_file: the registry.load_card calls it makes,
\* in order, each followed by the save of the card loaded.  A call is written
\* with the arguments load_and_save_model passes: name, team and version;
\* uid is the argument load_card would take a uid in, and is never passed.
save_to_local_file(uid, name, team, versions) ==
    LET load_and_save_model(version) ==
            [uid |-> "none", name |-> name, team |-> team, version |-> version]
        save_model_api_def_from_versions ==
            IF versions # <<>>
            THEN [i \in 1..Len(versions) |-> load_and_save_model(<<versions[i]>>)]
            ELSE <<load_and_save_model(NoVersion)>>
    IN  (IF uid # "none" THEN <<load_and_save_model(NoVersion)>> ELSE <<>>)
        \o save_model_api_def_from_versions

\* load_model_card_to_file(name, team, version, uid)
LoadModelCardToFile(name, team, version, uid) ==
    /\ cli' = IF uid = "none" /\ (name = "none" \/ team = "none")
              THEN [called |-> TRUE, uid |-> uid, name |-> name, team |-> team,
                    versions |-> version, raised |-> TRUE, calls |-> <<>>]
              ELSE [called |-> TRUE, uid |-> uid, name |-> name, team |-> team,
                    versions |-> version, raised |-> FALSE,
                    calls |-> save_to_local_file(uid, name, team, version)]
    /\ UNCHANGED <<regvars, upvars, cardvars, libvars, proj, sett, md, fr, tfs, rec>>

(***************************************************************************)
(* data/interfaces/custom_data/base.py: Metadata                           *)
(***************************************************************************)
\* Metadata.size, a cached_property: the first read computes the sum of
\* record.size over records and stores it on the instance, every later read
\* returns what is stored.  cached is <<>> before the first read.
Metadata_size(records, cached) ==
    LET RECURSIVE sum(_)
        sum(sizes) == IF sizes = <<>> THEN 0 ELSE Head(sizes) + sum(Tail(sizes))
    IN  IF cached # <<>> THEN cached[1]
        ELSE sum([i \in 1..Len(records) |-> records[i].size])

\* metadata.size is read
ReadSize ==
    /\ md' = [md EXCEPT !.cached = <<Metadata_size(md.records, md.cached)>>,
                        !.read = <<Metadata_size(md.records, md.cached)>>]
    /\ UNCHANGED <<regvars, upvars, cardvars, libvars, proj, sett, cli, fr, tfs, rec>>

\* the holder of the Metadata adds, removes or replaces entries of records;
\* nothing in Metadata runs
SetRecords(records) ==
    /\ records # md.records
    /\ md' = [md EXCEPT !.records = records, !.read = <<>>]
    /\ UNCHANGED <<regvars, upvars, cardvars, libvars, proj, sett, cli, fr, tfs, rec>>

(***************************************************************************)
(* data/interfaces/custom_data/base.py: FileRecord                         *)
(***************************************************************************)
\* FileRecord.check_args(data_args): filepath and size are data_args.get of
\* the two keys, <<>> for None; disk gives for a path the size of the file
\* there, <<>> when there is none.  all([filepath, size]) takes the truth
\* value of both: a Path is true, an int is true unless it is 0.
check_args(filepath, size, disk) ==
    IF filepath # <<>> /\ size # <<>> /\ size[1] # 0
    THEN [raised |-> FALSE, exc |-> "", filepath |-> filepath, size |-> size]
    ELSE IF filepath = <<>>
    THEN [raised |-> TRUE, exc |-> "Filepath is required",
          filepath |-> filepath, size |-> size]
    ELSE IF disk[filepath[1]] = <<>>
    THEN [raised |-> TRUE, exc |-> "does not exist",
          filepath |-> filepath, size |-> size]
    ELSE [raised |-> FALSE, exc |-> "", filepath |-> filepath,
          size |-> disk[filepath[1]]]

\* FileRecord(filepath=..., size=...) with the files of disk in place
CreateFileRecord(filepath, size, disk) ==
    /\ fr' = [called |-> TRUE, filepath |-> filepath, size |-> size, disk |-> disk,
              record |-> check_args(filepath, size, disk)]
    /\ UNCHANGED <<regvars, upvars, cardvars, libvars, proj, sett, cli, md, tfs, rec>>

(***************************************************************************)
(* registry/model/interfaces/tf.py: TensorFlowModel.get_sample_data        *)
(***************************************************************************)
\* TensorFlowModel.get_sample_data(sample_data).  A value is its class and
\* its items: an array or tensor has one item, its number of rows; a list, a
\* tuple and a dict have one item per element, in order (per key for a
\* dict), the rows of that element; x[0:1] keeps one row when there is one.
\* The expression returned for a tuple, (data[0:1] for data in sample_data),
\* is a generator.
get_sample_data(sample_data) ==
    LET first(items) == [i \in DOMAIN items |-> IF items[i] >= 1 THEN 1 ELSE 0]
    IN  IF sample_data.class \in {"ndarray", "Tensor"}
        THEN [raised |-> FALSE, class |-> sample_data.class,
              items |-> first(sample_data.items)]
        ELSE IF sample_data.class = "list"
        THEN [raised |-> FALSE, class |-> "list", items |-> first(sample_data.items)]
        ELSE IF sample_data.class = "tuple"
        THEN [raised |-> FALSE, class |-> "generator",
              items |-> first(sample_data.items)]
        ELSE IF sample_data.class = "dict"
        THEN [raised |-> FALSE, class |-> "dict", items |-> first(sample_data.items)]
        ELSE [raised |-> TRUE, class |-> "ValueError", items |-> <<>>]

\* TensorFlowModel.get_sample_data is called
GetSampleData(sample_data) ==
    /\ tfs' = [called |-> TRUE, sample_data |-> sample_data,
               returned |-> get_sample_data(sample_data)]
    /\ UNCHANGED <<regvars, upvars, cardvars, libvars, proj, sett, cli, md, fr, rec>>

(***************************************************************************)
(* registry/cards/record_models.py: data_splits stored and loaded          *)
(***************************************************************************)
\* A value of data_splits on its way to and from a record is written
\* <<type, keys, items>>: <<"NoneType", <<>>, <<>>>> for None, <<"list", <<>>,
\* items>> for a list, and <<"dict", keys, items>> for a dict with the keys
\* given, items being the list under the key "splits".  bool() of it is false
\* for None, an empty list and an empty dict.
\* LoadedDataRecord.get_splits that hands back what it is given
get_splits_Mut(splits) == splits

\* LoadedDataRecord.get_splits(splits)
get_splits(splits) ==
    IF (splits[1] = "list" /\ splits[3] # <<>>)
       \/ (splits[1] = "dict" /\ splits[2] # <<>>)
    THEN \* splits.get("splits")
         IF splits[1] = "dict" /\ \E i \in 1..Len(splits[2]) : splits[2][i] = "splits"
         THEN <<"list", <<>>, splits[3]>>
         ELSE <<"NoneType", <<>>, <<>>>>
    ELSE splits

\* DataRegistryRecord.convert_to_dict(splits), for splits None or a list
convert_to_dict(splits) ==
    IF (splits[1] = "list" /\ splits[3] # <<>>)
       \/ (splits[1] = "dict" /\ splits[2] # <<>>)
    THEN <<"dict", <<"splits">>, splits[3]>>
    ELSE splits

\* a DataRegistryRecord is built with data_splits = splits, and a
\* LoadedDataRecord is built from what it holds
StoreAndLoadSplits(splits) ==
    /\ rec' = [called |-> TRUE, registered |-> splits,
               stored |-> convert_to_dict(splits),
               loaded |-> get_splits(convert_to_dict(splits))]
    /\ UNCHANGED <<regvars, upvars, cardvars, libvars, proj, sett, cli, md, fr, tfs>>

PkgInit ==
    /\ proj = [built |-> FALSE, name_in |-> <<>>, team_in |-> <<>>, valid |-> FALSE,
               name |-> <<>>, team |-> <<>>, project_id |-> <<>>]
    /\ sett = [called |-> FALSE, STORAGE_URI |-> <<>>, is_proxy |-> FALSE,
               artifacts |-> [storage_type |-> "local", storage_uri |-> <<>>,
                              proxy |-> FALSE],
               settings |-> [storage_type |-> "local", storage_uri |-> <<>>,
                             proxy |-> FALSE]]
    /\ cli = [called |-> FALSE, uid |-> "none", name |-> "none", team |-> "none",
              versions |-> <<>>, raised |-> FALSE, calls |-> <<>>]
    /\ md = [records |-> <<>>, cached |-> <<>>, read |-> <<>>]
    /\ fr = [called |-> FALSE, filepath |-> <<>>, size |-> <<>>,
             disk |-> [p \in {"a", "b"} |-> <<>>],
             record |-> [raised |-> FALSE, exc |-> "", filepath |-> <<>>, size |-> <<>>]]
    /\ tfs = [called |-> FALSE, sample_data |-> [class |-> "NoneType", items |-> <<>>],
              returned |-> [raised |-> FALSE, class |-> "NoneType", items |-> <<>>]]
    /\ rec = [called |-> FALSE,
              registered |-> <<"NoneType", <<>>, <<>>>>,
              stored |-> <<"NoneType", <<>>, <<>>>>,
              loaded |-> <<"NoneType", <<>>, <<>>>>]

vars == <<regvars, upvars, cardvars, libvars, pkgvars>>

Init == RegInit /\ UpInit /\ CardInit /\ LibInit /\ PkgInit

DataTable == <<"OPSML", "DATA", "REGISTRY">>

\* Clients of the registry routes: each registers cards by checking the uid,
\* asking for a version and creating the card with the version it was handed
\* (only if the uid was reported as not existing), and updates records.
Next ==
    \/ \E c \in Clients, tn \in TableNames, uid \in CheckedUids : CheckUid(c, tn, uid)
    \/ \E c \in Clients, tn \in TableNames, team \in Teams, vt \in VersionTypes :
          pc[c] = "checked" /\ SetVersion(c, tn, "x", team, vt)
    \/ \E c \in Clients, uid \in CheckedUids : TotalRows < MaxRows /\ AddRecord(c, uid)
    \/ \E tn \in TableNames, record \in UpdateRecords : UpdateRecord(tn, record)

Spec == Init /\ [][Next]_vars

\* Clients that register cards of one (name, team) in the data registry, each
\* with a uid of its own making (the next unused one).
FreshUid(uid) ==
    /\ uid \notin {r.uid : r \in Rows(DataTable)}
    /\ \A u \in Uids : u \notin {r.uid : r \in Rows(DataTable)} => UidLeq(uid, u)

NextRace ==
    \/ \E c \in Clients, vt \in VersionTypes : SetVersion(c, DataTable, "x", "y", vt)
    \/ \E c \in Clients, uid \in Uids :
          TotalRows < MaxRaceRows /\ FreshUid(uid) /\ AddRecord(c, uid)

SpecRace == Init /\ [][NextRace]_vars

\* One client at a time posting to /upload; a new request starts when the
\* previous one has been answered.
NextUpload ==
    \/ \E fn \in Filenames \cup {None}, wp \in WritePaths \cup {None} :
          UploadRequest(fn, wp)
    \/ \E chunk \in Chunks, storage_ok \in BOOLEAN :
          chunks_read < MaxChunks /\ UploadChunk(chunk, storage_ok)
    \/ UploadStreamEnd
    \/ UploadDisconnect
    \/ UploadDone

SpecUpload == Init /\ [][NextUpload]_vars

\* Data cards registered one after the other
NextCard ==
    \E data_name \in DataNames, team \in CardTeams, has_drift \in BOOLEAN,
       data_registry \in DataRegistries, uid \in Uids, version \in 1..MaxCardVersion :
        create_registry_record(data_name, team, has_drift, data_registry, uid, version)

SpecCard == Init /\ [][NextCard]_vars

\* Model cards registered one after the other by one client, each with the
\* next unused uid, and clients downloading models in between, addressed by
\* name and team (with or without a version) or by uid alone.
FreshModelUid(uid) ==
    /\ uid \notin {r.uid : r \in Rows(ModelTable)}
    /\ \A u \in Uids : u \notin {r.uid : r \in Rows(ModelTable)} => UidLeq(uid, u)

DownloadVersions == {NoVersion, <<1, 0, 0>>, <<1, 1, 0>>, <<2, 0, 0>>}

NextDownload ==
    \/ \E name \in Names, vt \in {"minor", "major"} :
          SetVersion("c1", ModelTable, name, "y", vt)
    \/ \E uid \in Uids :
          Len(tables[ModelTable]) < MaxModels /\ FreshModelUid(uid) /\ AddRecord("c1", uid)
    \/ \E name \in Names, team \in Teams, version \in DownloadVersions,
          storage_ok \in BOOLEAN :
          DownloadModel(name, team, version, NoValue, storage_ok)
    \/ \E uid \in Uids, storage_ok \in BOOLEAN :
          DownloadModel(NoValue, NoValue, NoVersion, uid, storage_ok)

SpecDownload == Init /\ [][NextDownload]_vars

\* Files of the storage downloaded one after the other
NextIter == \E file \in Files : DownloadFile(file)

SpecIter == Init /\ [][NextIter]_vars

\* Frames saved and loaded back through one storage directory
NextPolars ==
    \/ \E path \in PolarsPaths, d \in PolarsFrames : PolarsSaveData(path, d)
    \/ PolarsLoadData

SpecPolars == Init /\ [][NextPolars]_vars

\* Objects classified one after the other
NextTypes == \E data \in DataObjects : CheckDataType(data)

SpecTypes == Init /\ [][NextTypes]_vars

\* Objects converted and schemas derived, one call after the other
NextFormat ==
    \/ \E data \in FormatObjects, order \in FormatterOrders :
          ConvertDataToArrow(data, order)
    \/ \E data \in FormatObjects : CreateTableSchema(data)

SpecFormat == Init /\ [][NextFormat]_vars

\* Objects of the libraries classified, and objects converted by the
\* formatters in the order of their definition, one call after the other
NextData ==
    \/ \E data \in LibraryClasses : CheckDataType(data)
    \/ \E data \in FormatObjects : ConvertDataToArrow(data, SubclassOrder)

SpecData == Init /\ [][NextData]_vars

\* Properties read on splitters, one after the other
NextSplit == \E split \in DataSplits, property \in SplitProperties : ReadProperty(split, property)

SpecSplit == Init /\ [][NextSplit]_vars

\* Cards built with data splits and split afterwards
NextValidCard ==
    \/ \E splits \in SplitLists : CreateCard(splits)
    \/ SplitData

SpecValidCard == Init /\ [][NextValidCard]_vars

\* Projects built one after the other, of any name and of two teams
NextProject ==
    \E name \in Identifiers, team \in {<<"A">>, <<" ", "_">>} :
        BuildProjectInfo(name, team)

SpecProject == Init /\ [][NextProject]_vars

\* The settings asked under every configuration: storage URIs of up to
\* MaxUriLen parts, the empty one included
NextSettings ==
    \E STORAGE_URI \in UNION {[1..n -> {"gs://", "s3://", "a", "/"}] : n \in 0..MaxUriLen},
       is_proxy \in BOOLEAN :
        GetStorageSettings(STORAGE_URI, is_proxy)

SpecSettings == Init /\ [][NextSettings]_vars

\* The command line given every combination of --name, --team, --uid and up
\* to MaxVersions --version options
NextCli ==
    \E name \in {"none", "m"}, team \in {"none", "t"}, uid \in {"none", "u1"},
       version \in UNION {[1..n -> {1, 2}] : n \in 0..MaxVersions} :
        LoadModelCardToFile(name, team, version, uid)

SpecCli == Init /\ [][NextCli]_vars

\* A Metadata whose records are changed between reads of its size: up to
\* MaxRecords records of sizes up to MaxRecordSize
NextMetadata ==
    \/ ReadSize
    \/ \E records \in UNION {[1..n -> [filepath : {<<"a">>}, size : 0..MaxRecordSize]] :
                                n \in 0..MaxRecords} :
          SetRecords(records)

SpecMetadata == Init /\ [][NextMetadata]_vars

\* FileRecord built with and without filepath and size, the two files
\* present with any size up to MaxRecordSize or absent
NextFileRecord ==
    \E filepath \in {<<>>, <<"a">>, <<"b">>},
       size \in {<<>>} \cup {<<n>> : n \in 0..MaxRecordSize},
       disk \in [{"a", "b"} -> {<<>>} \cup {<<n>> : n \in 0..MaxRecordSize}] :
        CreateFileRecord(filepath, size, disk)

SpecFileRecord == Init /\ [][NextFileRecord]_vars

\* get_sample_data given arrays and tensors of up to MaxSampleRows rows,
\* lists, tuples and dicts of up to MaxItems of them, None and a string
NextSample ==
    \/ \E class \in {"ndarray", "Tensor"}, rows \in 0..MaxSampleRows :
          GetSampleData([class |-> class, items |-> <<rows>>])
    \/ \E class \in {"list", "tuple", "dict"},
          items \in UNION {[1..n -> 0..MaxSampleRows] : n \in 0..MaxItems} :
          GetSampleData([class |-> class, items |-> items])
    \/ \E class \in {"NoneType", "str"} :
          GetSampleData([class |-> class, items |-> <<>>])

SpecSample == Init /\ [][NextSample]_vars

\* data_splits registered and loaded again: None, and every list of up to
\* two split dictionaries, a dictionary {"label": l, "start": n} written
\* <<l, n>>
NextRecord ==
    \/ StoreAndLoadSplits(<<"NoneType", <<>>, <<>>>>)
    \/ \E n \in 0..2 :
          \E items \in [1..n -> {"train", "test", "eval"} \X (0..MaxSplitIndex)] :
              StoreAndLoadSplits(<<"list", <<>>, items>>)

SpecRecord == Init /\ [][NextRecord]_vars


(***************************************************************************)
(* Claims about the registry routes                                        *)
(***************************************************************************)
SamePair(a, b) == a.name = b.name /\ a.team = b.team

\* C1: under any interleaving of clients that each call /version and then
\* /create for the same (name, team), no two clients receive the same
\* version.  Stated of the clients that hold a version from /version and
\* have their /create still to send.
C1_NoSharedVersion ==
    \A c1, c2 \in Clients :
        (/\ c1 # c2
         /\ pc[c1] = "versioned" /\ pc[c2] = "versioned"
         /\ ver[c1].table_name = ver[c2].table_name
         /\ SamePair(ver[c1], ver[c2]))
        => ver[c1].version # ver[c2].version

\* C2: the versions committed for a (name, team) are distinct and strictly
\* increasing in commit order.
C2_IncreasingInCommitOrder ==
    \A tn \in TableNames : \A i, j \in 1..Len(tables[tn]) :
        (i < j /\ SamePair(tables[tn][i], tables[tn][j]))
        => VersionLess(tables[tn][i].version, tables[tn][j].version)

\* C3: /check_uid answers uid_exists = true exactly for the uids whose
\* /create completed successfully on that table, false for every uid that
\* was never created there.
C3_CheckUidTracksCreate ==
    \A tn \in TableNames, uid \in Uids :
        check_uid(tn, uid) = (uid \in created[tn])

C3_Witness ==
    \E tn \in TableNames, u1, u2 \in Uids :
        /\ u1 \in created[tn] /\ check_uid(tn, u1)
        /\ u2 \notin created[tn] /\ ~check_uid(tn, u2)
        /\ last_write.op = "update"

\* C4: no registry table ever holds two rows with the same uid or two rows
\* with the same (name, team, version), also when two clients race through
\* "check_uid, then create if the uid does not exist" with the same uid.
C4_UniqueRows ==
    \A tn \in TableNames : \A i, j \in 1..Len(tables[tn]) :
        i # j =>
            /\ tables[tn][i].uid # tables[tn][j].uid
            /\ ~(/\ SamePair(tables[tn][i], tables[tn][j])
                 /\ tables[tn][i].version = tables[tn][j].version)

\* two clients were both told that the uid does not exist; the create of
\* the first is committed, the create of the second has been answered
C4_Witness ==
    /\ last_write = [op |-> "create", status |-> 500, flag |-> TRUE]
    /\ \E tn \in TableNames : Len(tables[tn]) = 1

\* C5: the set of (uid, name, team, version) rows of every table only
\* grows: no step of any route removes a committed row.
RowIds(t) == {<<t[i].uid, t[i].name, t[i].team, t[i].version>> : i \in 1..Len(t)}

C5_RowsOnlyGrow ==
    [][\A tn \in TableNames : RowIds(tables[tn]) \subseteq RowIds(tables'[tn])]_vars

C5_Witness ==
    /\ TotalRows = MaxRows
    /\ last_write = [op |-> "update", status |-> 200, flag |-> TRUE]

\* C6: /update leaves name, team and uid (and the version) of every stored
\* row as they were; only the metadata of a row may differ afterwards.
C6_IdentityFixed ==
    [][\A tn \in TableNames : \A i \in 1..Len(tables[tn]) :
          /\ i <= Len(tables'[tn])
          /\ tables'[tn][i].uid = tables[tn][i].uid
          /\ tables'[tn][i].name = tables[tn][i].name
          /\ tables'[tn][i].team = tables[tn][i].team
          /\ tables'[tn][i].version = tables[tn][i].version]_vars

\* an update whose record carried another name was applied to a stored row
\* and changed its metadata
C6_Witness ==
    /\ last_write = [op |-> "update", status |-> 200, flag |-> TRUE]
    /\ \E tn \in TableNames : \E r \in Rows(tn) : r.meta = "m1" /\ r.name = "x"

(***************************************************************************)
(* Claims about DataCard.create_registry_record                            *)
(***************************************************************************)
CardUris(c) == {c.data_uri, c.drift_uri} \ {NoUri}

C8_BoundPerChunk ==
    /\ parser_bytes <= body_len
    /\ parser_bytes <= MAX_REQUEST_BODY_SIZE
    /\ body_len > MAX_REQUEST_BODY_SIZE =>
          /\ up_pc = "done" /\ status = 413 /\ ended = "body_size"
          /\ body_len - parser_bytes <= MaxChunkData + 1
    /\ file_size > MAX_FILE_SIZE => up_pc = "done" /\ status = 413
    /\ \A p \in DOMAIN storage : storage[p] <= MAX_FILE_SIZE

\* the parser has taken a body of exactly the maximum size and the next
\* chunk was refused
C8_Witness ==
    /\ up_pc = "done" /\ ended = "body_size" /\ status = 413
    /\ parser_bytes = MAX_REQUEST_BODY_SIZE

\* C9: a file of exactly MAX_FILE_SIZE bytes in a body of at most
\* MAX_FILE_SIZE + 1024 bytes is not refused for its size and, the body read
\* to its end, is answered with storage_uri; a file of more than
\* MAX_FILE_SIZE bytes is answered with 413.
C9_SizeBoundary ==
    /\ (file_size <= MAX_FILE_SIZE /\ body_len <= MAX_FILE_SIZE + BodySlack)
          => status # 413
    /\ (up_pc = "done" /\ ended = "end" /\ multipart_filename
        /\ file_size = MAX_FILE_SIZE)
          => (status = 200 /\ storage_uri = path_join(write_path, filename))
    /\ file_size > MAX_FILE_SIZE => (status = 413 /\ storage_uri = None)

C9_Witness ==
    /\ up_pc = "done" /\ ended = "end" /\ status = 200
    /\ file_size = MAX_FILE_SIZE
    /\ body_len > MAX_FILE_SIZE
    /\ target_path \in DOMAIN storage /\ storage[target_path] = MAX_FILE_SIZE

HeaderMissing == filename = None \/ write_path = None

\* C10 as stated: a request without the Filename or the WritePath header is
\* answered 422, and so is every request with both headers and no "file"
\* part.
C10_NoFilePartIs422 ==
    (up_pc = "done" /\ (HeaderMissing \/ ~sent_file)) => status = 422

\* C10, amended: a request without the Filename or the WritePath header is
\* answered 422 before any chunk is read: no target is built, the parser
\* gets no byte and storage stays as it was.  A request with both headers
\* and no "file" part is answered 422 as well, unless its body passes
\* MAX_REQUEST_BODY_SIZE, which is answered 413.
C10_MissingHeaders ==
    [][/\ (up_pc = "idle" /\ (filename' = None \/ write_path' = None)) =>
             /\ up_pc' = "done" /\ status' = 422
             /\ storage' = storage
             /\ ~target_created' /\ parser_bytes' = 0 /\ chunks_read' = 0
       /\ (up_pc = "streaming" /\ up_pc' = "done" /\ ~sent_file') =>
             \/ status' = 422
             \/ status' = 413 /\ body_len' > MAX_REQUEST_BODY_SIZE]_vars

\* a request without a header answered 422 while storage holds an earlier
\* upload
C10_Witness ==
    /\ up_pc = "done" /\ HeaderMissing /\ status = 422
    /\ storage # <<>>

(***************************************************************************)
(* Claims about POST /download_model                                       *)
(***************************************************************************)
\* the cards the last download request matches
Matching == registry_list_cards(ModelTable, dl.name, dl.team, dl.version, dl.uid)

\* C11: client-caused conditions are answered with a 4xx status and storage
\* failures with a 5xx status; in particular a download_model request whose
\* name/team/version/uid matches no card is answered with a 4xx status, not
\* a 5xx.  (Rows are never deleted, so a request that matches no card now
\* matched none when it was answered.)
C11_NotFoundIs4xx ==
    dl.answer.status # 0 =>
        /\ Matching = <<>> => dl.answer.status \in 400..499
        /\ (Len(Matching) = 1 /\ ~dl.storage_ok) => dl.answer.status \in 500..599

\* the card of the highest version among the rows of a (name, team)
LatestOf(name, team) ==
    LET pair == {r \in Rows(ModelTable) : r.name = name /\ r.team = team}
    IN  CHOOSE r \in pair : r.version = MaxVersion({q.version : q \in pair})

\* C12: a download addressed by name and team without a version streams the
\* model of the latest registered version of that pair, however many versions
\* (one or more) the pair has; addressed by uid alone it selects exactly the
\* card with that uid.
C12_DownloadSelectsCard ==
    [][(dl' # dl /\ dl'.storage_ok) =>
         /\ ( /\ dl'.uid = NoValue /\ dl'.version = NoVersion
              /\ \E r \in Rows(ModelTable) : r.name = dl'.name /\ r.team = dl'.team )
            => /\ dl'.answer.status = 200
               /\ dl'.answer.file_path = onnx_model_uri(LatestOf(dl'.name, dl'.team))
         /\ ( /\ dl'.uid # NoValue
              /\ \E r \in Rows(ModelTable) : r.uid = dl'.uid )
            => /\ dl'.answer.status = 200
               /\ dl'.answer.file_path = <<"onnx", dl'.uid>>
      ]_vars

(***************************************************************************)
(* Claims about iterfile                                                   *)
(***************************************************************************)
RECURSIVE Concat(_)
Concat(chunks) ==
    IF chunks = <<>> THEN <<>> ELSE Head(chunks) \o Concat(Tail(chunks))

\* ceil(S / C)
CeilDiv(S, C) == (S + C - 1) \div C

\* C13: for a file of size S and the chunk size C of the download routes,
\* iterfile yields chunks of length between 1 and C each, whose concatenation
\* is the file's bytes: ceil(S/C) chunks, only the last possibly shorter than
\* C; for S = 5*C + 7 these are 6 chunks, the last of length 7.
C13_ChunksCoverFile ==
    it.called =>
        LET S == Len(it.file)
            n == Len(it.chunks)
        IN  /\ \A i \in 1..n : Len(it.chunks[i]) \in 1..CHUNK_SIZE
            /\ Concat(it.chunks) = it.file
            /\ n = CeilDiv(S, CHUNK_SIZE)
            /\ \A i \in 1..(n - 1) : Len(it.chunks[i]) = CHUNK_SIZE
            /\ S = 5 * CHUNK_SIZE + 7 => n = 6 /\ Len(it.chunks[6]) = 7

C13_Witness ==
    /\ it.called
    /\ Len(it.file) = 5 * CHUNK_SIZE + 7
    /\ Len(it.chunks) = 6

(***************************************************************************)
(* Claims about the data interfaces                                        *)
(***************************************************************************)
\* C14: for every path p and frame d, save_data(p) followed by load_data(p)
\* restores data structurally equal to d (column order, dtypes, row count),
\* and the path save_data returns is the path the artifact was written at.
C14_PolarsRoundTrip ==
    /\ pol.pc \in {"saved", "loaded"} => pol.save_path = pol.written
    /\ pol.pc = "loaded" => ~pol.raised /\ pol.loaded = pol.data

(***************************************************************************)
(* Claims about the type dispatcher                                        *)
(***************************************************************************)
\* the checks in the priority order stated for them, with the image dataset
\* check at the place the function gives it
PriorityOrder ==
    <<"dict", "ImageDataset", "np.ndarray", "pd.DataFrame", "pl.DataFrame", "pa.Table",
      "str", "TRANSFORMER_BATCH", "TORCH_TENSOR", "TENSORFLOW_TENSOR">>

\* the tag a check stands for
TagOf(check) ==
    CASE check = "dict" -> AllowedDataType.DICT
      [] check = "ImageDataset" -> AllowedDataType.IMAGE
      [] check = "np.ndarray" -> AllowedDataType.NUMPY
      [] check = "pd.DataFrame" -> AllowedDataType.PANDAS
      [] check = "pl.DataFrame" -> AllowedDataType.POLARS
      [] check = "pa.Table" -> AllowedDataType.PYARROW
      [] check = "str" -> AllowedDataType.STRING
      [] OTHER -> AllowedDataType[check]

Satisfies(data, check) ==
    IF check \in InstanceClasses THEN check \in data.isa
    ELSE get_class_name(data) = AllowedDataType[check]

\* C15: check_data_type tests in a fixed first-match order (dict, then
\* ndarray, then the data frames pandas and polars, then arrow table, then
\* string, then the class-name fallbacks), so an object that satisfies several
\* checks gets the tag of the earliest one, and every value returned is a
\* member of AllowedDataType.
C15_FirstMatchPriority ==
    typ.called =>
        LET sat == {i \in 1..Len(PriorityOrder) : Satisfies(typ.data, PriorityOrder[i])}
        IN  /\ sat # {} =>
                /\ ~typ.result.raised
                /\ \E i \in sat :
                      /\ \A j \in sat : i <= j
                      /\ typ.result.value = TagOf(PriorityOrder[i])
            /\ ~typ.result.raised =>
                typ.result.value \in {AllowedDataType[m] : m \in DOMAIN AllowedDataType}

\* an object that is at once a string, an arrow table and a dict
C15_Witness ==
    /\ typ.called
    /\ {"dict", "pa.Table", "str"} \subseteq typ.data.isa
    /\ typ.result.value = AllowedDataType.DICT

\* C16: classifying or converting an object that matches no supported type
\* fails with UnsupportedTypeError whose message names the received type,
\* both in check_data_type and in convert_data_to_arrow when no formatter's
\* validate_data accepts the object.
C16_UnsupportedTypeError ==
    /\ (typ.called /\ typ.result.raised) =>
          /\ typ.result.exc = "UnsupportedTypeError"
          /\ typ.result.received = get_class_name(typ.data)
    /\ (fmt.op = "convert" /\ \A f \in Formatters : ~validate_data(f, fmt.data)) =>
          /\ fmt.converted.raised
          /\ fmt.converted.exc = "UnsupportedTypeError"
          /\ fmt.converted.received = fmt.data.name

(***************************************************************************)
(* Claims about the arrow formatter                                        *)
(***************************************************************************)
ArrayReturnedAsIs ==
    (fmt.op = "convert" /\ isinstance(fmt.data, "np.ndarray")) =>
        ~fmt.converted.raised /\ fmt.converted.table = fmt.data

\* C17 as stated: for an array input the formatter returns the array itself
\* and create_table_schema returns a map with the single key "dtype" whose
\* value is the array's element dtype as a string.
C17_ArraySchemaKeyDtype ==
    /\ ArrayReturnedAsIs
    /\ (fmt.op = "schema" /\ isinstance(fmt.data, "np.ndarray")) =>
          fmt.feature_map = {<<"dtype", fmt.data.dtype>>}

\* C17 amended: for an array input the formatter returns the array itself
\* and create_table_schema returns a map with the single key "numpy_dtype"
\* whose value is the array's element dtype as a string.
C17_ArraySchemaKeyNumpyDtype ==
    /\ ArrayReturnedAsIs
    /\ (fmt.op = "schema" /\ isinstance(fmt.data, "np.ndarray")) =>
          fmt.feature_map = {<<"numpy_dtype", fmt.data.dtype>>}

C17_Witness ==
    /\ fmt.op = "schema"
    /\ isinstance(fmt.data, "np.ndarray")
    /\ fmt.data.dtype = "int32"
    /\ fmt.feature_map # {}

ColumnNames(data) == [i \in 1..Len(data.columns) |-> data.columns[i][1]]

\* each supported input is accepted by exactly one formatter, the conversion
\* does not depend on the order of the formatters, and a tabular input comes
\* out as an arrow table of the same columns in the same order
OneConversionRule ==
    (fmt.op = "convert" /\ fmt.data \in PandasFrames \cup NumpyArrays \cup ArrowTables) =>
        /\ Cardinality({f \in Formatters : validate_data(f, fmt.data)}) = 1
        /\ \A o \in FormatterOrders : convert_data_to_arrow(fmt.data, o) = fmt.converted
        /\ ~fmt.converted.raised
        /\ fmt.data \in PandasFrames \cup ArrowTables =>
              /\ isinstance(fmt.converted.table, "pa.Table")
              /\ ColumnNames(fmt.converted.table) = ColumnNames(fmt.data)
              /\ fmt.converted.table.rows = fmt.data.rows

\* C18 as stated: each supported input type is accepted by exactly one
\* formatter, so one conversion rule applies whatever the enumeration order;
\* tabular input gives a columnar table of the same columns in the same order
\* without the row index; create_table_schema returns one entry per column
\* (an empty map for a table with no columns).
C18_OneEntryPerColumn ==
    /\ OneConversionRule
    /\ (fmt.op = "schema" /\ fmt.data \in ArrowTables) =>
          Cardinality(fmt.feature_map) = Len(fmt.data.columns)

\* C18 amended: as stated, except that create_table_schema returns one entry
\* per distinct column name, with the type of the last column of that name
\* (one entry per column when the names are distinct, an empty map for a
\* table with no columns).
C18_OneEntryPerColumnName ==
    /\ OneConversionRule
    /\ (fmt.op = "schema" /\ fmt.data \in ArrowTables) =>
          LET n == Len(fmt.data.columns)
          IN  /\ {e[1] : e \in fmt.feature_map} = {fmt.data.columns[i][1] : i \in 1..n}
              /\ Cardinality(fmt.feature_map)
                   = Cardinality({fmt.data.columns[i][1] : i \in 1..n})
              /\ \A e \in fmt.feature_map : \E i \in 1..n :
                    /\ fmt.data.columns[i] = e
                    /\ \A j \in (i + 1)..n : fmt.data.columns[j][1] # e[1]

\* a frame with a row index of its own converted, its two columns kept
C18_Witness ==
    /\ fmt.op = "convert"
    /\ fmt.data \in PandasFrames
    /\ fmt.data.index = "Index"
    /\ ColumnNames(fmt.converted.table) = <<"b", "a">>

(***************************************************************************)
(* Claims about the data splitter                                          *)
(***************************************************************************)
\* the properties that belong to the variant of a split
OwnProperties(split) ==
    IF split.indices # Nothing THEN {"indices"}
    ELSE IF split.start # Nothing THEN {"start", "stop"}
    ELSE {"column_name", "column_value"}

\* C19: on a splitter built from a split of one variant, reading a property
\* of another variant raises ValueError and returns no default: column_name,
\* column_value, start and stop on an explicit-indices split, indices and
\* column_name on a range split.
C19_ForeignPropertyRaises ==
    (spl.read /\ spl.property \notin OwnProperties(spl.split)) =>
        spl.result.raised /\ spl.result.exc = "ValueError"

\* stop read on the explicit-indices split [0, 2]
C19_Witness ==
    /\ spl.read
    /\ spl.split.indices = Some(<<0, 2>>)
    /\ spl.property = "stop"
    /\ spl.result.raised

(***************************************************************************)
(* Claims about the validation of data splits                              *)
(***************************************************************************)
\* an entry of exactly one variant
OneVariant(e) ==
    e.keys \in {{"column", "column_value"}, {"start", "stop"}, {"indices"}}

\* C20: a split entry that mixes variants (both column and indices, or start
\* without stop) is rejected when the card holding it is built; no card with
\* such an entry is created and later reaches split_data.
C20_MixedSplitRejected ==
    /\ vc.pc \in {"created", "split"} =>
          \A i \in 1..Len(vc.data_splits) : OneVariant(vc.data_splits[i])
    /\ \A i \in 1..Len(vc.handed) : OneVariant(vc.handed[i])

(***************************************************************************)
(* Claims about split_data                                                 *)
(***************************************************************************)
\* C21: split_data processes the split entries in the order given and
\* afterwards the subset of every entry is reachable on the returned holder
\* under its label: for every list of entries, lists with a label used twice
\* included, the holder exposes one subset per entry; with an empty or None
\* data_splits it returns None.
C21_OneSubsetPerEntry ==
    vc.pc = "split" =>
        IF vc.data_splits = <<>> THEN vc.holder = "None"
        ELSE /\ vc.holder = "DataHolder"
             /\ vc.handed = vc.data_splits
             /\ \A i \in 1..Len(vc.data_splits) :
                   <<vc.data_splits[i].label, i>> \in vc.attrs

(***************************************************************************)
(* Claims about ProjectInfo                                                *)
(***************************************************************************)
\* C22: project_id, the full project identifier, is the string "name:team":
\* the normalized name, a colon, then the normalized team.
C22_ProjectIdNameThenTeam ==
    (proj.built /\ proj.valid) => proj.project_id = proj.name \o <<":">> \o proj.team

\* two strings that differ only in letter case or surrounding whitespace
Trimmed(str) ==
    LET inner == {i \in 1..Len(str) : str[i] # " "}
    IN  IF inner = {} THEN <<>>
        ELSE [k \in 1..(1 + (CHOOSE i \in inner : \A j \in inner : j <= i)
                          - (CHOOSE i \in inner : \A j \in inner : i <= j)) |->
                 str[k - 1 + (CHOOSE i \in inner : \A j \in inner : i <= j)]]
SameButCase(x, y) ==
    /\ Len(Trimmed(x)) = Len(Trimmed(y))
    /\ \A i \in 1..Len(Trimmed(x)) :
          {Trimmed(x)[i], Trimmed(y)[i]} \in {{"a"}, {"A"}, {"a", "A"}, {"_"}, {" "}}

\* C23: identifier normalization (strip, lower-case, '_' to '-') is idempotent
\* and collapses case: inputs that differ only in letter case or surrounding
\* whitespace give the same normalized identifier and so the same project_id.
C23_NormalizationCollapsesCase ==
    proj.built =>
        /\ identifier_validator(proj.name) = proj.name
        /\ identifier_validator(proj.team) = proj.team
        /\ \A other \in Identifiers :
              SameButCase(other, proj.name_in) =>
                  /\ identifier_validator(other) = proj.name
                  /\ project_id(identifier_validator(other), proj.team) = proj.project_id

\* a project built from " Aa": "aa " differs from it by case and whitespace
C23_Witness ==
    /\ proj.built /\ proj.valid
    /\ proj.name_in = <<" ", "A", "a">>
    /\ proj.name = <<"a", "a">>

(***************************************************************************)
(* Claims about GET /settings                                              *)
(***************************************************************************)
\* C24: the storage_type reported is 'api' exactly when STORAGE_URI is not
\* empty and is_proxy is true, 'gcs' exactly when is_proxy is false and
\* STORAGE_URI contains 'gs://', and 'local' otherwise; the two
\* implementations of get_storage_settings return the same storage_type,
\* storage_uri and proxy for every configuration.
C24_SettingsAgree ==
    sett.called =>
        LET gs == \E i \in 1..Len(sett.STORAGE_URI) : sett.STORAGE_URI[i] = "gs://"
        IN  /\ sett.artifacts = sett.settings
            /\ sett.settings.storage_type = "api"
                  <=> (sett.STORAGE_URI # <<>> /\ sett.is_proxy)
            /\ sett.settings.storage_type = "gcs" <=> (~sett.is_proxy /\ gs)
            /\ sett.settings.storage_type \in {"api", "gcs", "local"}
            /\ sett.settings.storage_uri = sett.STORAGE_URI
            /\ sett.settings.proxy = sett.is_proxy

\* a bucket URI asked for behind a proxy
C24_Witness ==
    /\ sett.called
    /\ sett.is_proxy
    /\ sett.STORAGE_URI = <<"gs://", "a">>
    /\ sett.artifacts.storage_type = "api"

\* C25: the success answer {storage_uri: join(WritePath, Filename)} is given
\* only when the whole body stream was read without error: an upload cut
\* short by a client disconnect is never answered with success, whatever
\* part of the multipart body the parser had taken before.
C25_SuccessOnlyAfterWholeBody ==
    /\ status = 200 => ended = "end"
    /\ ended = "disconnect" => (status # 200 /\ storage_uri = None)

(***************************************************************************)
(* Claims about ModelLoaderCli                                             *)
(***************************************************************************)
\* C26: with a uid, save_to_local_file performs exactly one load-and-save,
\* of the card addressed by that uid, whatever name, team and versions are;
\* without a uid it performs one load-and-save per entry of versions, in
\* order, or a single one with version None when versions is empty.
C26_UidOverrides ==
    (cli.called /\ ~cli.raised) =>
        /\ cli.uid # "none" =>
              /\ Len(cli.calls) = 1
              /\ cli.calls[1].uid = cli.uid
        /\ cli.uid = "none" =>
              /\ Len(cli.calls) = IF cli.versions = <<>> THEN 1 ELSE Len(cli.versions)
              /\ \A i \in 1..Len(cli.calls) :
                    /\ cli.calls[i].name = cli.name /\ cli.calls[i].team = cli.team
                    /\ cli.calls[i].version =
                          IF cli.versions = <<>> THEN NoVersion ELSE <<cli.versions[i]>>

(***************************************************************************)
(* Claims about Metadata and FileRecord                                    *)
(***************************************************************************)
RECURSIVE TotalSize(_)
TotalSize(records) ==
    IF records = <<>> THEN 0 ELSE Head(records).size + TotalSize(Tail(records))

\* C27: in every reachable state a read of Metadata.size gives the sum of
\* record.size over the records held at the time of the read, whatever
\* reads, additions, removals and replacements came before.
C27_SizeIsSumOfRecords ==
    md.read # <<>> => md.read[1] = TotalSize(md.records)

\* C28: a record built with both filepath and size is accepted with its
\* arguments unchanged, whether the file exists or not and for every size,
\* 0 included; without size the file must exist (else an assertion error)
\* and size becomes the size of the file on disk; without filepath the
\* record is always rejected.
C28_FileRecordValidation ==
    fr.called =>
        /\ (fr.filepath # <<>> /\ fr.size # <<>>) =>
              /\ ~fr.record.raised
              /\ fr.record.filepath = fr.filepath /\ fr.record.size = fr.size
        /\ (fr.filepath # <<>> /\ fr.size = <<>>) =>
              IF fr.disk[fr.filepath[1]] = <<>>
              THEN fr.record.raised
              ELSE ~fr.record.raised /\ fr.record.size = fr.disk[fr.filepath[1]]
        /\ fr.filepath = <<>> => fr.record.raised

(***************************************************************************)
(* Claims about TensorFlowModel.get_sample_data                            *)
(***************************************************************************)
\* C29: get_sample_data returns data of the same container kind as its
\* input, each element reduced to its first record: an array or tensor gives
\* its first-row slice, a list a list, a tuple a tuple, a dict a dict with
\* the same keys; any other input, None included, raises ValueError.
C29_SameKindOneRecord ==
    tfs.called =>
        IF tfs.sample_data.class \in {"ndarray", "Tensor", "list", "tuple", "dict"}
        THEN /\ ~tfs.returned.raised
             /\ tfs.returned.class = tfs.sample_data.class
             /\ DOMAIN tfs.returned.items = DOMAIN tfs.sample_data.items
             /\ \A i \in DOMAIN tfs.returned.items :
                   /\ tfs.returned.items[i] <= 1
                   /\ tfs.sample_data.items[i] >= 1 => tfs.returned.items[i] = 1
        ELSE tfs.returned.raised /\ tfs.returned.class = "ValueError"

(***************************************************************************)
(* Claims about the data_splits of registry records                        *)
(***************************************************************************)
\* C30: for every data_splits value s, None, an empty list or a non-empty
\* list of split dictionaries, get_splits applied to convert_to_dict(s) is
\* s again: the splits loaded equal the splits registered.
C30_SplitsRoundTrip ==
    rec.called =>
        /\ rec.loaded = rec.registered
        /\ rec.stored[1] = "dict" <=> rec.registered[3] # <<>>

\* a list of two split dictionaries stored under the key "splits" and
\* loaded again
C30_Witness ==
    /\ rec.called
    /\ rec.registered[1] = "list" /\ Len(rec.registered[3]) = 2
    /\ rec.stored[1] = "dict" /\ rec.stored[2] = <<"splits">>
    /\ rec.loaded[1] = "list"

====
